---------------------------- MODULE Spec2Model ----------------------------
(***************************************************************************)
(* Model of UART_Tester/tester.py: the CRC16 (Modbus) checksum, the packet *)
(* generator, the serial receiver thread with its resynchronising buffer,  *)
(* and the main thread that sends packets, consumes validated payloads     *)
(* from the queue and builds the comparison records.                       *)
(***************************************************************************)
EXTENDS Integers, Sequences, FiniteSets, TLC

(***************************************************************************)
(* Bounds of the model (not program constants).                            *)
(***************************************************************************)
\* largest number of bytes one transport read hands over in the model
MaxChunk == 16
\* largest number of junk bytes inserted into a stream
MaxJunk == 2
\* largest number of frames in a stream fed to the receiver alone
MaxFrames == 2

(***************************************************************************)
(* Program constants.                                                      *)
(***************************************************************************)
\* ser.read(64)
ReadSize == 64
\* len(buffer) < 16, buffer[:16], buffer[16:]
PacketLen == 16
\* range(11), packet[3:14]
PayloadLen == 11
\* packets_to_send = 5
packets_to_send == 5
\* b'\x24\x46\x53'
header == <<36, 70, 83>>
\* expected_data = [10, 20, ..., 110]
expected_data == <<10, 20, 30, 40, 50, 60, 70, 80, 90, 100, 110>>

Min(a, b) == IF a < b THEN a ELSE b

\* the element of a one-element set: in Only({F(val) : val \in {e}}) the
\* expression e is evaluated once and F gets its value (an assignment to a
\* local variable, as in "crc = ...")
Only(S) == CHOOSE x \in S : TRUE

(***************************************************************************)
(* Bit operations on non-negative integers.                                *)
(***************************************************************************)
RECURSIVE BitXor(_, _)
\* a ^ b
BitXor(a, b) ==
    IF a = 0 THEN b
    ELSE IF b = 0 THEN a
    ELSE (((a % 2) + (b % 2)) % 2) + (2 * BitXor(a \div 2, b \div 2))

(***************************************************************************)
(* crc16: lines 15-24.                                                     *)
(***************************************************************************)
\* x with bit k inverted
ToggleBit(x, k) ==
    LET w == IF k = 0 THEN 1 ELSE IF k = 13 THEN 8192 ELSE 32768
    IN  IF (x \div w) % 2 = 1 THEN x - w ELSE x + w

\* x ^ 0x8005: the polynomial written unreflected, as a slip would
XorPolyUnreflected(x) == BitXor(x, 32773)

\* x ^ 0xA001: the bits 0, 13 and 15 of x inverted
XorPoly(x) == ToggleBit(ToggleBit(ToggleBit(x, 0), 13), 15)

\* lines 20-23: one pass of the inner loop body
ShiftOnce(crc) == IF crc % 2 = 1 THEN XorPoly(crc \div 2) ELSE crc \div 2

RECURSIVE CrcBits(_, _)
\* for _ in range(8): n passes of the inner loop body, lines 19-23
CrcBits(crc, n) ==
    IF n = 0 THEN crc
    ELSE Only({CrcBits(next, n - 1) : next \in {ShiftOnce(crc)}})

\* the outer loop body for one byte b: lines 18-23
CrcByte(crc, b) ==
    Only({CrcBits(xored, 8) : xored \in {BitXor(crc, b)}})

RECURSIVE CrcFold(_, _, _)
\* the outer loop over data from index i on, with accumulator crc
CrcFold(crc, data, i) ==
    IF i > Len(data) THEN crc
    ELSE Only({CrcFold(next, data, i + 1) : next \in {CrcByte(crc, data[i])}})

\* crc16(data): the accumulator starts at 0xFFFF
crc16(data) == CrcFold(65535, data, 1)

(***************************************************************************)
(* create_packet: lines 31-36.                                             *)
(***************************************************************************)
\* struct.pack('>H', crc): the byte order a slip would produce
PackBE(crc) == <<(crc \div 256) % 256, crc % 256>>

\* struct.pack('<H', crc): low byte first
PackLE(crc) == <<crc % 256, (crc \div 256) % 256>>

create_packet(data_bytes) ==
    LET raw == header \o data_bytes
    IN  raw \o PackLE(crc16(raw))

(***************************************************************************)
(* The checks serial_receiver applies to the front of its buffer.          *)
(***************************************************************************)
\* struct.unpack('<H', packet[14:16])[0]
UnpackLE(two) == two[1] + (256 * two[2])

\* line 59: buffer[0:3] == b'\x24\x46\x53'
HeaderOk(buf) == SubSeq(buf, 1, 3) = header

\* a checksum test that compares the low byte only
CrcOkLowByte(buf) ==
    LET packet == SubSeq(buf, 1, PacketLen)
    IN  packet[15] = crc16(SubSeq(packet, 1, 14)) % 256

\* lines 63-69: received_crc == calculated_crc on packet = buffer[:16]
CrcOk(buf) ==
    LET packet == SubSeq(buf, 1, PacketLen)
    IN  UnpackLE(SubSeq(packet, 15, 16)) = crc16(SubSeq(packet, 1, 14))

\* the checks without the checksum test of line 69
ScanFrontNoCrc(buf) == IF ~HeaderOk(buf) THEN "bad_header" ELSE "valid"

\* the checks of lines 59-71 in their order, on a buffer of 16 bytes or more
ScanFront(buf) ==
    IF ~HeaderOk(buf) THEN "bad_header"
    ELSE IF ~CrcOk(buf) THEN "bad_crc"
    ELSE "valid"

\* a resync that skips the whole header length instead of one byte
DropHeaderLen(buf) == SubSeq(buf, 4, Len(buf))

\* lines 60 and 70: buffer.pop(0)
DropLeading(buf) == Tail(buf)

\* line 74: data_bytes = packet[3:14]
PacketData(buf) == SubSeq(buf, 4, 14)


(***************************************************************************)
(* The float arithmetic of lines 169-170.  A non-zero double is kept as    *)
(* [neg, exp, mant]: mant is the 53-bit significand, most significant bit  *)
(* first (mant[1] = 1), and the value is (-1)^neg * 1.mant[2..53] * 2^exp. *)
(* Every operation rounds to nearest, ties to even, as IEEE-754 does.      *)
(***************************************************************************)
\* significand width of a double
MantBits == 53

FloatZero == [zero |-> TRUE, neg |-> FALSE, exp |-> 0, mant |-> <<>>]

\* bits + 1 from position i down: the lowest 0 becomes 1 and the 1s below it
\* become 0; <<>> when the carry runs off the top
BitsIncr(bits, i) ==
    LET Carry(zeros) ==
            IF zeros = {} THEN <<>>
            ELSE LET Set(z) ==
                         [j \in 1..Len(bits) |->
                             IF j < z \/ j > i THEN bits[j]
                             ELSE IF j = z THEN 1 ELSE 0]
                 IN  Only({Set(val) :
                              val \in {CHOOSE j \in zeros : \A k \in zeros : k <= j}})
    IN  Only({Carry(val) : val \in {{j \in 1..i : bits[j] = 0}}})

\* the significand bits (with their exponent) rounded up by one unit
RoundUp(bits, exp) ==
    LET Carried(inc) ==
            IF inc = <<>>
            THEN [exp |-> exp + 1,
                  mant |-> [i \in 1..MantBits |-> IF i = 1 THEN 1 ELSE 0]]
            ELSE [exp |-> exp, mant |-> inc]
        Incr(b) == Only({Carried(val) : val \in {BitsIncr(b, Len(b))}})
    IN  Only({Incr(val) : val \in {bits}})

RECURSIVE ScaleExp(_, _, _)
\* the exponent x with 2^x <= n/d < 2^(x+1), found by doubling one side
ScaleExp(n, d, x) ==
    IF n < d THEN ScaleExp(2 * n, d, x - 1)
    ELSE IF n >= 2 * d THEN ScaleExp(n, 2 * d, x + 1)
    ELSE x

RECURSIVE Pow2(_)
Pow2(k) == IF k = 0 THEN 1 ELSE 2 * Pow2(k - 1)

RECURSIVE DivBits(_, _, _, _)
\* long division: the next k quotient bits of rem/d appended to acc, and the
\* remainder left; k bits are the first k \div 2 bits and then the others
DivBits(rem, d, k, acc) ==
    IF k = 0 THEN [bits |-> acc, rem |-> rem]
    ELSE IF k = 1
    THEN LET r2 == 2 * rem
             b  == IF r2 >= d THEN 1 ELSE 0
         IN  [bits |-> Append(acc, b), rem |-> r2 - (b * d)]
    ELSE Only({DivBits(s.rem, d, k - (k \div 2), s.bits) :
                  s \in {DivBits(rem, d, k \div 2, acc)}})

\* n / d for integers n >= 0, d >= 1, correctly rounded (Python's int / int)
FloatDivPos(n, d) ==
    IF n = 0 THEN FloatZero
    ELSE LET Scaled(x) ==
                 LET nn == IF x < 0 THEN n * Pow2(0 - x) ELSE n
                     dd == IF x > 0 THEN d * Pow2(x) ELSE d
                     Rounded(q) ==
                         LET up == \/ 2 * q.rem > dd
                                   \/ 2 * q.rem = dd /\ q.bits[MantBits] = 1
                             r  == IF up THEN RoundUp(q.bits, x)
                                   ELSE [exp |-> x, mant |-> q.bits]
                         IN  [zero |-> FALSE, neg |-> FALSE,
                              exp |-> r.exp, mant |-> r.mant]
                 IN  Only({Rounded(val) :
                              val \in {DivBits(nn - dd, dd, MantBits - 1, <<1>>)}})
         IN  Only({Scaled(val) : val \in {ScaleExp(n, d, 0)}})

\* (received - expected) / expected: line 169, the division
FloatDiv(n, d) ==
    IF n < 0 THEN [FloatDivPos(0 - n, d) EXCEPT !.neg = TRUE] ELSE FloatDivPos(n, d)

RECURSIVE CarryBits(_, _)
\* the bits of the carry left over, put in front of acc
CarryBits(carry, acc) ==
    IF carry = 0 THEN acc
    ELSE Only({CarryBits(c, a) :
                  c \in {carry \div 2}, a \in {<<carry % 2>> \o acc}})

RECURSIVE MulRange(_, _, _, _, _)
\* the n positions of bits from hi upward in significance, times m, added
\* to s = [carry, acc]; n positions are the first n \div 2 and then the others
MulRange(bits, m, hi, n, s) ==
    IF n = 0 THEN s
    ELSE IF n = 1
    THEN LET t == (m * bits[hi]) + s.carry
         IN  [carry |-> t \div 2, acc |-> <<t % 2>> \o s.acc]
    ELSE Only({MulRange(bits, m, hi - (n \div 2), n - (n \div 2), low) :
                  low \in {MulRange(bits, m, hi, n \div 2, s)}})

\* bits * m, from the least significant bit (position i) up
MulBits(bits, m, i, carry, acc) ==
    Only({CarryBits(s.carry, s.acc) :
             s \in {MulRange(bits, m, i, i, [carry |-> carry, acc |-> acc])}})

\* f * m for a small integer m >= 1, correctly rounded: line 169, "* 100"
FloatMulInt(f, m) ==
    IF f.zero THEN f
    ELSE LET Rounded(p) ==
                 LET extra == Len(p) - MantBits
                     kept  == SubSeq(p, 1, MantBits)
                     tail  == SubSeq(p, MantBits + 1, Len(p))
                     guard == extra > 0 /\ tail[1] = 1
                     stick == \E i \in 2..extra : tail[i] = 1
                     up    == guard /\ (stick \/ kept[MantBits] = 1)
                     r     == IF up THEN RoundUp(kept, f.exp + extra)
                              ELSE [exp |-> f.exp + extra, mant |-> kept]
                 IN  [zero |-> FALSE, neg |-> f.neg, exp |-> r.exp, mant |-> r.mant]
         IN  Only({Rounded(val) : val \in {MulBits(f.mant, m, MantBits, 0, <<>>)}})

\* error = ((received - expected) / expected) * 100
PercentError(expected, received) ==
    Only({FloatMulInt(quotient, 100) :
             quotient \in {FloatDiv(received - expected, expected)}})

\* abs(error) <= 1
AbsLeqOne(f) ==
    \/ f.zero
    \/ f.exp < 0
    \/ f.exp = 0 /\ \A i \in 2..MantBits : f.mant[i] = 0

\* abs(error) < 1: the comparison a slip would write
AbsLessOne(f) == f.zero \/ f.exp < 0

\* the status with < written for <=
StatusOfStrict(error) == IF AbsLessOne(error) THEN "PASS" ELSE "FAIL"

\* status = "PASS" if abs(error) <= 1 else "FAIL": line 170
StatusOf(error) == IF AbsLeqOne(error) THEN "PASS" ELSE "FAIL"


\* one comparison record: lines 166-178 (the error itself is used for the
\* status and not carried in the record)
CompareField(id, expected, received) ==
    LET Record(error) ==
            [id       |-> id,
             expected |-> expected,
             received |-> received,
             status   |-> StatusOf(error)]
    IN  Only({Record(val) : val \in {PercentError(expected, received)}})

\* the records with the loop index as id, not idx + 1
CompareAllZeroBased(recv_data) ==
    [idx \in 1..PayloadLen |->
        CompareField(idx - 1, expected_data[idx], recv_data[idx])]

\* the 11 records of one received payload: the loop of lines 165-178
CompareAll(recv_data) ==
    [idx \in 1..PayloadLen |->
        CompareField(idx, expected_data[idx], recv_data[idx])]

(***************************************************************************)
(* The byte stream the device puts on the line.  A layout is a sequence of *)
(* items: "good" (a frame as create_packet builds it), "bad" (such a frame *)
(* with its first payload byte altered in transit, so the checksum no      *)
(* longer matches) and "junk" (one stray byte; a run of stray bytes spells *)
(* the magic header, the hardest junk for the receiver).                   *)
(***************************************************************************)
\* the payload of the k-th frame on the line: the expected data with the
\* last field drifting by one per frame, so every frame is distinguishable
DevicePayload(k) == [expected_data EXCEPT ![PayloadLen] = 109 + k]

GoodFrame(k) == create_packet(DevicePayload(k))

BadFrame(k) == [GoodFrame(k) EXCEPT ![4] = (@ + 1) % 256]

RECURSIVE NumOf(_, _)
\* how many items of the layout are of one of the kinds
NumOf(lay, kinds) ==
    IF lay = <<>> THEN 0
    ELSE (IF Head(lay) \in kinds THEN 1 ELSE 0) + NumOf(Tail(lay), kinds)

RECURSIVE Flatten(_, _, _)
\* the bytes of a layout; k frames and a junk run of j bytes came before
Flatten(lay, k, j) ==
    IF lay = <<>> THEN <<>>
    ELSE IF Head(lay) = "good" THEN GoodFrame(k + 1) \o Flatten(Tail(lay), k + 1, 0)
    ELSE IF Head(lay) = "bad" THEN BadFrame(k + 1) \o Flatten(Tail(lay), k + 1, 0)
    ELSE <<header[(j % 3) + 1]>> \o Flatten(Tail(lay), k, j + 1)

RECURSIVE GoodPayloads(_, _)
\* the payloads of the good frames of a layout, in order
GoodPayloads(lay, k) ==
    IF lay = <<>> THEN <<>>
    ELSE IF Head(lay) = "good" THEN <<DevicePayload(k + 1)>> \o GoodPayloads(Tail(lay), k + 1)
    ELSE IF Head(lay) = "bad" THEN GoodPayloads(Tail(lay), k + 1)
    ELSE GoodPayloads(Tail(lay), k)

RECURSIVE SeqsUpTo(_, _)
\* all sequences over S of length at most n
SeqsUpTo(S, n) ==
    IF n = 0 THEN {<<>>}
    ELSE LET shorter == SeqsUpTo(S, n - 1)
         IN  shorter \cup {Append(q, x) : q \in shorter, x \in S}

\* layouts fed to the receiver running alone
FramerLayouts ==
    {lay \in SeqsUpTo({"good", "bad", "junk"}, MaxFrames + MaxJunk) :
        /\ NumOf(lay, {"good", "bad"}) <= MaxFrames
        /\ NumOf(lay, {"junk"}) <= MaxJunk}

(***************************************************************************)
(* State.                                                                  *)
(***************************************************************************)
VARIABLES
    layout,            \* what the device sends, item by item (fixed)
    stream,            \* the bytes of layout, in line order (fixed)
    rx_pos,            \* bytes of stream that ser.read has handed over
    buffer,            \* serial_receiver: buffer
    rx_pc,             \* serial_receiver: "test" (line 46), "call" (line 48,
                       \*   before the call), "read" (inside ser.read),
                       \*   "scan" (lines 54-77), "exited"
    rx_exit,           \* why serial_receiver returned: "", "stop", "error"
    nreads,            \* non-empty reads so far, counted up to ReadsCap
    dropped,           \* bytes removed by buffer.pop(0) so far
    published,         \* every payload put on the queue so far, in order
    late_reads,        \* calls of ser.read made with stop_event already set
    packet_queue,      \* main: packet_queue
    stop_event,        \* main: stop_event
    ser_open,          \* the serial port is open
    main_pc,           \* main: "idle", "send", "wait", "timeout", "stop",
                       \*       "close", "report", "done"
    sent,              \* packets written by the send loop
    received_packets,  \* main: received_packets
    results_all,       \* main: results_all
    consumed,          \* every recv_data the get of line 158 returned, in order
    report,            \* the list handed to generate_report
    unit               \* a single call of a pure function, with its result

vars == <<layout, stream, rx_pos, buffer, rx_pc, rx_exit, nreads, dropped,
          published, late_reads, packet_queue, stop_event, ser_open, main_pc, sent,
          received_packets, results_all, consumed, report, unit>>

rx_vars == <<rx_pos, buffer, rx_pc, rx_exit, nreads, dropped, published,
             late_reads>>

main_vars == <<main_pc, sent, received_packets, results_all, consumed, report>>

\* nreads stops counting here
ReadsCap == 3

(***************************************************************************)
(* serial_receiver: lines 43-80.                                           *)
(***************************************************************************)
\* a loop that goes on whatever stop_event says: while True
RxLoopEnterAlways ==
    /\ rx_pc = "test"
    /\ rx_pc' = "call"
    /\ UNCHANGED <<layout, stream, rx_pos, buffer, rx_exit, nreads, dropped,
                   published, packet_queue, stop_event, ser_open, unit,
                   late_reads>>
    /\ UNCHANGED main_vars

\* line 46: stop_event.is_set() returns False, the loop body starts
RxLoopEnter ==
    /\ rx_pc = "test"
    /\ ~stop_event
    /\ rx_pc' = "call"
    /\ UNCHANGED <<layout, stream, rx_pos, buffer, rx_exit, nreads, dropped,
                   published, packet_queue, stop_event, ser_open, unit,
                   late_reads>>
    /\ UNCHANGED main_vars

\* line 46: stop_event is set, the loop and the thread end
RxLoopExit ==
    /\ rx_pc = "test"
    /\ stop_event
    /\ rx_pc' = "exited"
    /\ rx_exit' = "stop"
    /\ UNCHANGED <<layout, stream, rx_pos, buffer, nreads, dropped,
                   published, packet_queue, stop_event, ser_open, unit,
                   late_reads>>
    /\ UNCHANGED main_vars

\* line 48: the thread calls ser.read(64); nothing holds main back between
\* the test of line 46 and this call
RxReadCall ==
    /\ rx_pc = "call"
    /\ rx_pc' = "read"
    /\ late_reads' = late_reads + (IF stop_event THEN 1 ELSE 0)
    /\ UNCHANGED <<layout, stream, rx_pos, buffer, rx_exit, nreads, dropped,
                   published, packet_queue, stop_event, ser_open, unit>>
    /\ UNCHANGED main_vars

\* lines 48-50: the read times out with no data; continue
RxReadEmpty ==
    /\ rx_pc = "read"
    /\ rx_pc' = "test"
    /\ UNCHANGED <<layout, stream, rx_pos, buffer, rx_exit, nreads, dropped,
                   published, packet_queue, stop_event, ser_open, unit,
                   late_reads>>
    /\ UNCHANGED main_vars

\* lines 48-52: the read returns n bytes, 1 <= n <= 64; buffer.extend(data)
RxReadData ==
    /\ rx_pc = "read"
    /\ \E n \in 1..Min(Min(ReadSize, MaxChunk), Len(stream) - rx_pos) :
          /\ buffer' = buffer \o SubSeq(stream, rx_pos + 1, rx_pos + n)
          /\ rx_pos' = rx_pos + n
    /\ nreads' = Min(nreads + 1, ReadsCap)
    /\ rx_pc' = "scan"
    /\ UNCHANGED <<layout, stream, rx_exit, dropped, published, packet_queue,
                   stop_event, ser_open, unit,
                   late_reads>>
    /\ UNCHANGED main_vars

\* lines 48, 79-80: the read raises serial.SerialException; break
RxReadError ==
    /\ rx_pc = "read"
    /\ rx_pc' = "exited"
    /\ rx_exit' = "error"
    /\ UNCHANGED <<layout, stream, rx_pos, buffer, nreads, dropped,
                   published, packet_queue, stop_event, ser_open, unit,
                   late_reads>>
    /\ UNCHANGED main_vars

\* the break of lines 55-56 with <= written for <
RxScanShortLeq ==
    /\ rx_pc = "scan"
    /\ Len(buffer) <= PacketLen
    /\ rx_pc' = "test"
    /\ UNCHANGED <<layout, stream, rx_pos, buffer, rx_exit, nreads, dropped,
                   published, packet_queue, stop_event, ser_open, unit,
                   late_reads>>
    /\ UNCHANGED main_vars

\* the break of lines 55-56 in a receiver that throws away a fragment
\* shorter than the header
RxScanShortDiscard ==
    /\ rx_pc = "scan"
    /\ Len(buffer) < PacketLen
    /\ buffer' = IF Len(buffer) < Len(header) THEN <<>> ELSE buffer
    /\ rx_pc' = "test"
    /\ UNCHANGED <<layout, stream, rx_pos, rx_exit, nreads, dropped,
                   published, packet_queue, stop_event, ser_open, unit,
                   late_reads>>
    /\ UNCHANGED main_vars

\* lines 55-56: fewer than 16 bytes buffered; break to the outer loop
RxScanShort ==
    /\ rx_pc = "scan"
    /\ Len(buffer) < PacketLen
    /\ rx_pc' = "test"
    /\ UNCHANGED <<layout, stream, rx_pos, buffer, rx_exit, nreads, dropped,
                   published, packet_queue, stop_event, ser_open, unit,
                   late_reads>>
    /\ UNCHANGED main_vars

\* lines 59-61: the header is not at the front; buffer.pop(0)
RxScanBadHeader ==
    /\ rx_pc = "scan"
    /\ Len(buffer) >= PacketLen
    /\ ScanFront(buffer) = "bad_header"
    /\ buffer' = DropLeading(buffer)
    /\ dropped' = dropped + 1
    /\ UNCHANGED <<layout, stream, rx_pos, rx_pc, rx_exit, nreads,
                   published, packet_queue, stop_event, ser_open, unit,
                   late_reads>>
    /\ UNCHANGED main_vars

\* a receiver that skips the whole 16 bytes when the checksum differs
RxScanBadCrcSkipFrame ==
    /\ rx_pc = "scan"
    /\ Len(buffer) >= PacketLen
    /\ ScanFront(buffer) = "bad_crc"
    /\ buffer' = SubSeq(buffer, PacketLen + 1, Len(buffer))
    /\ dropped' = dropped + PacketLen
    /\ UNCHANGED <<layout, stream, rx_pos, rx_pc, rx_exit, nreads,
                   published, packet_queue, stop_event, ser_open, unit,
                   late_reads>>
    /\ UNCHANGED main_vars

\* lines 63-71: header found, checksum differs; buffer.pop(0)
RxScanBadCrc ==
    /\ rx_pc = "scan"
    /\ Len(buffer) >= PacketLen
    /\ ScanFront(buffer) = "bad_crc"
    /\ buffer' = DropLeading(buffer)
    /\ dropped' = dropped + 1
    /\ UNCHANGED <<layout, stream, rx_pos, rx_pc, rx_exit, nreads,
                   published, packet_queue, stop_event, ser_open, unit,
                   late_reads>>
    /\ UNCHANGED main_vars

\* a receiver whose queue holds one item, Queue(maxsize=1): put waits while
\* the queue is full
RxScanValidBounded ==
    /\ rx_pc = "scan"
    /\ Len(buffer) >= PacketLen
    /\ ScanFront(buffer) = "valid"
    /\ Len(packet_queue) < 1
    /\ packet_queue' = Append(packet_queue, PacketData(buffer))
    /\ published' = Append(published, PacketData(buffer))
    /\ buffer' = SubSeq(buffer, PacketLen + 1, Len(buffer))
    /\ UNCHANGED <<layout, stream, rx_pos, rx_pc, rx_exit, nreads, dropped,
                   stop_event, ser_open, unit, late_reads>>
    /\ UNCHANGED main_vars

\* a receiver that cuts one byte too few after a valid packet: buffer[15:]
RxScanValidKeepLast ==
    /\ rx_pc = "scan"
    /\ Len(buffer) >= PacketLen
    /\ ScanFront(buffer) = "valid"
    /\ packet_queue' = Append(packet_queue, PacketData(buffer))
    /\ published' = Append(published, PacketData(buffer))
    /\ buffer' = SubSeq(buffer, PacketLen, Len(buffer))
    /\ UNCHANGED <<layout, stream, rx_pos, rx_pc, rx_exit, nreads, dropped,
                   stop_event, ser_open, unit, late_reads>>
    /\ UNCHANGED main_vars

\* lines 73-77: valid packet; packet_queue.put(data_bytes); buffer = buffer[16:]
RxScanValid ==
    /\ rx_pc = "scan"
    /\ Len(buffer) >= PacketLen
    /\ ScanFront(buffer) = "valid"
    /\ packet_queue' = Append(packet_queue, PacketData(buffer))
    /\ published' = Append(published, PacketData(buffer))
    /\ buffer' = SubSeq(buffer, PacketLen + 1, Len(buffer))
    /\ UNCHANGED <<layout, stream, rx_pos, rx_pc, rx_exit, nreads, dropped,
                   stop_event, ser_open, unit,
                   late_reads>>
    /\ UNCHANGED main_vars

Receiver ==
    \/ RxLoopEnter
    \/ RxLoopExit
    \/ RxReadCall
    \/ RxReadEmpty
    \/ RxReadData
    \/ RxReadError
    \/ RxScanShort
    \/ RxScanBadHeader
    \/ RxScanBadCrc
    \/ RxScanValid


(***************************************************************************)
(* main: lines 127-182, from the send loop on.                             *)
(***************************************************************************)
\* the loop condition with <= for <
LoopContinuesLeq(n) == n <= packets_to_send

\* line 156: the loop condition, with n payloads received
LoopContinues(n) == n < packets_to_send

\* a get that takes the newest item, as a LifoQueue would
QueueGetLifo(q) == [item |-> q[Len(q)], rest |-> SubSeq(q, 1, Len(q) - 1)]

\* line 158: packet_queue.get on a non-empty queue takes the oldest item
QueueGet(q) == [item |-> Head(q), rest |-> Tail(q)]

\* lines 149-152: one pass of the send loop, ser.write(create_packet(...))
MainSend ==
    /\ main_pc = "send"
    /\ sent < packets_to_send
    /\ sent' = sent + 1
    /\ main_pc' = IF sent + 1 < packets_to_send THEN "send"
                   ELSE IF LoopContinues(received_packets) THEN "wait"
                   ELSE "stop"
    /\ UNCHANGED <<layout, stream, packet_queue, stop_event, ser_open,
                   received_packets, results_all, consumed, report, unit>>
    /\ UNCHANGED rx_vars

\* lines 156-178: packet_queue.get returns recv_data; count it and append
\* its 11 records; the loop ends when received_packets reaches packets_to_send
MainGet ==
    /\ main_pc = "wait"
    /\ packet_queue # <<>>
    /\ LET got == QueueGet(packet_queue)
       IN  /\ packet_queue' = got.rest
           /\ consumed' = Append(consumed, got.item)
           /\ results_all' = results_all \o CompareAll(got.item)
    /\ received_packets' = received_packets + 1
    /\ main_pc' = IF LoopContinues(received_packets + 1) THEN "wait" ELSE "stop"
    /\ UNCHANGED <<layout, stream, stop_event, ser_open, sent, report, unit>>
    /\ UNCHANGED rx_vars

\* lines 158-160 in a session that gives up on the first timeout
MainTimeoutAbort ==
    /\ main_pc = "wait"
    /\ packet_queue = <<>>
    /\ main_pc' = "stop"
    /\ UNCHANGED <<layout, stream, packet_queue, stop_event, ser_open, sent,
                   received_packets, results_all, consumed, report, unit>>
    /\ UNCHANGED rx_vars

\* lines 158-160: the queue stayed empty for the whole wait; get raises
MainTimeout ==
    /\ main_pc = "wait"
    /\ packet_queue = <<>>
    /\ main_pc' = "timeout"
    /\ UNCHANGED <<layout, stream, packet_queue, stop_event, ser_open, sent,
                   received_packets, results_all, consumed, report, unit>>
    /\ UNCHANGED rx_vars

\* lines 160-161: print("Timeout waiting for packet"); continue
MainRetry ==
    /\ main_pc = "timeout"
    /\ main_pc' = "wait"
    /\ UNCHANGED <<layout, stream, packet_queue, stop_event, ser_open, sent,
                   received_packets, results_all, consumed, report, unit>>
    /\ UNCHANGED rx_vars

\* line 180: stop_event.set()
MainStop ==
    /\ main_pc = "stop"
    /\ stop_event' = TRUE
    /\ main_pc' = "close"
    /\ UNCHANGED <<layout, stream, packet_queue, ser_open, sent,
                   received_packets, results_all, consumed, report, unit>>
    /\ UNCHANGED rx_vars

\* line 181: ser.close()
MainClose ==
    /\ main_pc = "close"
    /\ ser_open' = FALSE
    /\ main_pc' = "report"
    /\ UNCHANGED <<layout, stream, packet_queue, stop_event, sent,
                   received_packets, results_all, consumed, report, unit>>
    /\ UNCHANGED rx_vars

\* line 182: generate_report(results_all)
MainReport ==
    /\ main_pc = "report"
    /\ report' = results_all
    /\ main_pc' = "done"
    /\ UNCHANGED <<layout, stream, packet_queue, stop_event, ser_open, sent,
                   received_packets, results_all, consumed, unit>>
    /\ UNCHANGED rx_vars

Main ==
    \/ MainSend
    \/ MainGet
    \/ MainTimeout
    \/ MainRetry
    \/ MainStop
    \/ MainClose
    \/ MainReport

(***************************************************************************)
(* The program: main with its receiver thread, lines 131-182.              *)
(***************************************************************************)
\* frames beyond packets_to_send on the line of a session
MaxExtra == 1

\* layouts on the line of a session: about as many frames as were sent, at
\* most one of them damaged, at most one stray byte in front
SessionLayouts ==
    {lay \in SeqsUpTo({"good", "bad", "junk"}, packets_to_send + MaxExtra + 1) :
        /\ NumOf(lay, {"good", "bad"}) >= packets_to_send - 1
        /\ NumOf(lay, {"good", "bad"}) <= packets_to_send + MaxExtra
        /\ NumOf(lay, {"bad"}) <= 1
        /\ NumOf(lay, {"junk"}) <= 1
        /\ \A i \in 2..Len(lay) : lay[i] # "junk"
        /\ \A i \in 1..Len(lay) : lay[i] = "bad" => i = Len(lay) - 1}


UnitOf(stage) ==
    [stage |-> stage, data |-> <<>>, frame |-> <<>>, flipped |-> -1,
     out |-> <<>>, expected |-> 0, received |-> 0, rec |-> <<>>]

\* the state at line 141, rx_thread.start()
InitOn(layouts) ==
    /\ layout \in layouts
    /\ stream = Flatten(layout, 0, 0)
    /\ rx_pos = 0
    /\ buffer = <<>>
    /\ rx_exit = ""
    /\ nreads = 0
    /\ dropped = 0
    /\ published = <<>>
    /\ late_reads = 0
    /\ packet_queue = <<>>
    /\ stop_event = FALSE
    /\ ser_open = TRUE
    /\ sent = 0
    /\ received_packets = 0
    /\ results_all = <<>>
    /\ consumed = <<>>
    /\ report = <<>>

Init ==
    /\ InitOn(SessionLayouts)
    /\ rx_pc = "test"
    /\ main_pc = "send"
    /\ unit = UnitOf("none")

Next == Receiver \/ Main

Spec == Init /\ [][Next]_vars

\* the line of the sessions followed to their end: a stray byte, then six
\* frames of which the fifth is damaged, so that five valid payloads arrive
FairLayouts ==
    {lay \in SessionLayouts :
        lay = <<"junk", "good", "good", "good", "good", "bad", "good">>}

FairInit ==
    /\ InitOn(FairLayouts)
    /\ rx_pc = "test"
    /\ main_pc = "send"
    /\ unit = UnitOf("none")

\* the program with both threads scheduled: a thread that can take a step
\* takes one (the interpreter switches between runnable threads, and every
\* ser.read and every packet_queue.get returns within its timeout)
FairSpec == FairInit /\ [][Next]_vars /\ WF_vars(Main) /\ WF_vars(Receiver)

(***************************************************************************)
(* serial_receiver running alone on a line, its stop_event never set.      *)
(***************************************************************************)
FramerInit ==
    /\ InitOn(FramerLayouts)
    /\ rx_pc = "test"
    /\ main_pc = "idle"
    /\ unit = UnitOf("none")

FramerNext ==
    \/ RxLoopEnter
    \/ RxReadCall
    \/ RxReadEmpty
    \/ RxReadData
    \/ RxReadError
    \/ RxScanShort
    \/ RxScanBadHeader
    \/ RxScanBadCrc
    \/ RxScanValid

FramerSpec == FramerInit /\ [][FramerNext]_vars


(***************************************************************************)
(* Single calls: create_packet on a payload, the receiver's checks on the  *)
(* 16 bytes it built (as they are, or with one bit flipped on the line),   *)
(* and the comparison of one field.                                        *)
(***************************************************************************)
ByteSamples == {0, 1, 36, 128, 255}

PayloadSamples ==
    {expected_data} \cup
    {[expected_data EXCEPT ![i] = v] : i \in 1..PayloadLen, v \in ByteSamples}
        \cup {[i \in 1..PayloadLen |-> v] : v \in ByteSamples}

\* the frame with bit number bit (0 = lowest bit of byte 0) inverted
FlipBit(frame, bit) ==
    [frame EXCEPT ![(bit \div 8) + 1] = BitXor(@, Pow2(bit % 8))]

\* no thread runs; unit holds the call's input
UnitInit(inputs) ==
    /\ InitOn({<<>>})
    /\ rx_pc = "idle"
    /\ main_pc = "idle"
    /\ unit \in inputs

\* packet = create_packet(data)
UnitEncode ==
    /\ unit.stage = "payload"
    /\ unit' = [unit EXCEPT !.stage = "frame", !.frame = create_packet(unit.data)]
    /\ UNCHANGED <<layout, stream, packet_queue, stop_event, ser_open>>
    /\ UNCHANGED rx_vars
    /\ UNCHANGED main_vars

\* one bit of the frame is inverted on the line
UnitFlip ==
    /\ unit.stage = "frame"
    /\ unit.flipped = -1
    /\ \E bit \in 0..(8 * PacketLen - 1) :
          unit' = [unit EXCEPT !.frame = FlipBit(@, bit), !.flipped = bit]
    /\ UNCHANGED <<layout, stream, packet_queue, stop_event, ser_open>>
    /\ UNCHANGED rx_vars
    /\ UNCHANGED main_vars

\* lines 59-74 on the 16 bytes
UnitDecode ==
    /\ unit.stage = "frame"
    /\ LET found == ScanFront(unit.frame)
       IN  unit' = [unit EXCEPT
                      !.stage = found,
                      !.out = IF found = "valid" THEN PacketData(unit.frame) ELSE <<>>]
    /\ UNCHANGED <<layout, stream, packet_queue, stop_event, ser_open>>
    /\ UNCHANGED rx_vars
    /\ UNCHANGED main_vars

\* lines 166-178 for one field
UnitCompare ==
    /\ unit.stage = "fields"
    /\ unit' = [unit EXCEPT
                  !.stage = "record",
                  !.rec = CompareField(1, unit.expected, unit.received)]
    /\ UNCHANGED <<layout, stream, packet_queue, stop_event, ser_open>>
    /\ UNCHANGED rx_vars
    /\ UNCHANGED main_vars

\* create_packet, and the receiver's checks on what it built
CodecInit ==
    UnitInit({[UnitOf("payload") EXCEPT !.data = p] : p \in PayloadSamples})

CodecNext ==
    \/ UnitEncode
    \/ UnitFlip
    \/ UnitDecode

CodecSpec == CodecInit /\ [][CodecNext]_vars

\* longest data_bytes handed to create_packet
MaxPayloadLen == 13

\* data_bytes of every length up to MaxPayloadLen
LengthSamples ==
    {SubSeq(expected_data, 1, n) : n \in 0..PayloadLen}
        \cup {[i \in 1..n |-> v] : n \in 0..MaxPayloadLen, v \in ByteSamples}

\* create_packet called on data_bytes of any length
EncodeInit ==
    UnitInit({[UnitOf("payload") EXCEPT !.data = p] : p \in LengthSamples})

EncodeNext == UnitEncode

EncodeSpec == EncodeInit /\ [][EncodeNext]_vars

\* longest sequence of sample bytes handed to crc16
MaxCrcLen == 2

\* the ASCII digits "123456789"
CheckString == <<49, 50, 51, 52, 53, 54, 55, 56, 57>>

\* data handed to crc16: nothing, every single byte, short sequences of
\* sample bytes, the usual check string, the 14 bytes create_packet sums
CrcInputs ==
    {<<b>> : b \in 0..255}
        \cup SeqsUpTo(ByteSamples, MaxCrcLen)
        \cup {CheckString, header \o expected_data}

\* crc16(data) called: line 16 has set crc = 0xFFFF, the loop of line 17 is
\* about to take data[i]
CrcInit ==
    UnitInit({[stage |-> "crc_byte", data |-> d, crc |-> 65535, i |-> 1, bit |-> 0] :
                 d \in CrcInputs})

\* line 18: crc ^= b
UnitCrcXor ==
    /\ unit.stage = "crc_byte"
    /\ unit.i <= Len(unit.data)
    /\ unit' = [unit EXCEPT !.stage = "crc_bit",
                            !.crc = BitXor(unit.crc, unit.data[unit.i]),
                            !.bit = 0]
    /\ UNCHANGED <<layout, stream, packet_queue, stop_event, ser_open>>
    /\ UNCHANGED rx_vars
    /\ UNCHANGED main_vars

\* lines 19-23: one pass of the inner loop; after the eighth, the next byte
UnitCrcShift ==
    /\ unit.stage = "crc_bit"
    /\ unit' = [unit EXCEPT !.crc = ShiftOnce(unit.crc),
                            !.bit = IF unit.bit + 1 < 8 THEN unit.bit + 1 ELSE 0,
                            !.i = IF unit.bit + 1 < 8 THEN unit.i ELSE unit.i + 1,
                            !.stage = IF unit.bit + 1 < 8 THEN "crc_bit" ELSE "crc_byte"]
    /\ UNCHANGED <<layout, stream, packet_queue, stop_event, ser_open>>
    /\ UNCHANGED rx_vars
    /\ UNCHANGED main_vars

\* line 24: return crc
UnitCrcReturn ==
    /\ unit.stage = "crc_byte"
    /\ unit.i > Len(unit.data)
    /\ unit' = [unit EXCEPT !.stage = "crc_done"]
    /\ UNCHANGED <<layout, stream, packet_queue, stop_event, ser_open>>
    /\ UNCHANGED rx_vars
    /\ UNCHANGED main_vars

CrcNext ==
    \/ UnitCrcXor
    \/ UnitCrcShift
    \/ UnitCrcReturn

\* crc16 followed statement by statement
CrcSpec == CrcInit /\ [][CrcNext]_vars

\* the comparison of one field, for every expected and received value
VerdictInit ==
    UnitInit({[UnitOf("fields") EXCEPT !.expected = e, !.received = r] :
                 e \in 1..255, r \in 0..255})

VerdictNext == UnitCompare

VerdictSpec == VerdictInit /\ [][VerdictNext]_vars

(***************************************************************************)
(* Properties.                                                             *)
(***************************************************************************)
IsPrefix(p, q) == Len(p) <= Len(q) /\ p = SubSeq(q, 1, Len(p))

Abs(n) == IF n < 0 THEN 0 - n ELSE n

\* the processing pass of lines 54-77 is not under way, or has nothing left to do
PassComplete == rx_pc # "scan" \/ Len(buffer) < PacketLen

RECURSIVE GoodStarts(_, _)
\* the stream positions at which the good frames of a layout start
GoodStarts(lay, pos) ==
    IF lay = <<>> THEN {}
    ELSE IF Head(lay) = "good" THEN {pos} \cup GoodStarts(Tail(lay), pos + PacketLen)
    ELSE IF Head(lay) = "bad" THEN GoodStarts(Tail(lay), pos + PacketLen)
    ELSE GoodStarts(Tail(lay), pos + 1)

\* the stream positions that hold junk: every byte outside the good frames
JunkPositions ==
    {i \in 1..Len(stream) :
        \A g \in GoodStarts(layout, 1) : i < g \/ i >= g + PacketLen}

\* some 16-byte window that starts at a junk byte has the magic header and a
\* matching checksum
SpuriousFrame ==
    \E i \in JunkPositions :
        /\ i + PacketLen - 1 <= Len(stream)
        /\ HeaderOk(SubSeq(stream, i, i + PacketLen - 1))
        /\ CrcOk(SubSeq(stream, i, i + PacketLen - 1))

\* C1: with junk before, between or after whole frames and no spurious frame
\* starting at a junk byte, what has been published is always a prefix of the
\* frames' payloads in order, and once the whole stream is delivered and the
\* pass is over it is exactly those payloads, whatever the chunking.
C1_Resync ==
    \/ /\ IsPrefix(published, GoodPayloads(layout, 0))
       /\ (rx_pos = Len(stream) /\ PassComplete)
             => published = GoodPayloads(layout, 0)
    \/ SpuriousFrame

C1_Witness ==
    /\ layout = <<"junk", "good", "junk", "good">>
    /\ rx_pos = Len(stream)
    /\ rx_pc = "test"
    /\ nreads = ReadsCap
    /\ dropped = 2
    /\ published = <<DevicePayload(1), DevicePayload(2)>>

\* C2: the frame create_packet builds for a payload is the magic, the payload
\* and the little-endian checksum of those 14 bytes; the receiver's header
\* check and checksum check accept it, and the payload extracted is the
\* payload encoded.
C2_RoundTrip ==
    /\ (unit.stage = "frame" /\ unit.flipped = -1) =>
          /\ Len(unit.frame) = PacketLen
          /\ SubSeq(unit.frame, 1, 3) = <<36, 70, 83>>
          /\ SubSeq(unit.frame, 4, 14) = unit.data
          /\ unit.frame[15] + (256 * unit.frame[16])
                = crc16(SubSeq(unit.frame, 1, 14))
    /\ (unit.stage \in {"valid", "bad_header", "bad_crc"} /\ unit.flipped = -1) =>
          /\ unit.stage = "valid"
          /\ unit.out = unit.data

C2_Witness ==
    /\ unit.stage = "valid"
    /\ unit.flipped = -1
    /\ unit.data = expected_data
    /\ unit.out = expected_data
    /\ unit.frame[15] = 90
    /\ unit.frame[16] = 110

\* C3: on a line that starts with a valid frame, after a first read of fewer
\* than 16 bytes nothing is published and the bytes read are all in the
\* buffer; after a second read that completes the 16 bytes, at most one
\* payload is published, and once the pass is over exactly the frame's.
C3_SplitDelivery ==
    (layout # <<>> /\ Head(layout) = "good") =>
        /\ (nreads = 1 /\ rx_pos < PacketLen) =>
              /\ published = <<>>
              /\ packet_queue = <<>>
              /\ buffer = SubSeq(stream, 1, rx_pos)
        /\ (nreads = 2 /\ rx_pos = PacketLen) =>
              /\ IsPrefix(published, <<DevicePayload(1)>>)
              /\ PassComplete =>
                    /\ published = <<DevicePayload(1)>>
                    /\ packet_queue = <<DevicePayload(1)>>
                    /\ buffer = <<>>

C3_Witness ==
    /\ layout = <<"good">>
    /\ nreads = 2
    /\ rx_pos = PacketLen
    /\ rx_pc = "test"
    /\ dropped = 0
    /\ packet_queue = <<expected_data>>

\* the front 16 bytes of the buffer pass both tests of the receiver
FrontValid ==
    /\ SubSeq(buffer, 1, 3) = <<36, 70, 83>>
    /\ buffer[15] + (256 * buffer[16]) = crc16(SubSeq(buffer, 1, 14))

\* C4: every step that puts a payload on the queue is a step of the scan with
\* 16 bytes or more buffered, the magic at the front and the little-endian
\* checksum matching, and puts bytes 3..13 of that window; a step from a
\* window that fails either test publishes nothing and does not end the
\* receiver.
C4_OnlyValidated ==
    [][/\ (packet_queue' # packet_queue) =>
              /\ rx_pc = "scan"
              /\ Len(buffer) >= PacketLen
              /\ FrontValid
              /\ packet_queue' = Append(packet_queue, SubSeq(buffer, 4, 14))
              /\ published' = Append(published, SubSeq(buffer, 4, 14))
       /\ (rx_pc = "scan" /\ Len(buffer) >= PacketLen /\ ~FrontValid) =>
              /\ packet_queue' = packet_queue
              /\ published' = published
              /\ rx_pc' = "scan"
              /\ rx_exit' = ""]_vars

C4_Witness ==
    /\ layout = <<"bad", "good">>
    /\ rx_pc = "scan"
    /\ dropped = PacketLen
    /\ published = <<DevicePayload(2)>>
    /\ buffer = <<>>


\* the k-th payload the session compared, read back from its records
ComparedPayload(k) ==
    [i \in 1..PayloadLen |-> results_all[(PayloadLen * (k - 1)) + i].received]

\* C5: the queue holds, oldest first, exactly the published payloads the
\* session has not taken yet, what the session took is the published payloads
\* in publication order, the K-th payload compared is the K-th published, and
\* the publication order is the order of the frames in the byte stream.
C5_ChannelOrder ==
    /\ IsPrefix(published, GoodPayloads(layout, 0))
    /\ Len(consumed) = received_packets
    /\ consumed = SubSeq(published, 1, received_packets)
    /\ packet_queue = SubSeq(published, received_packets + 1, Len(published))
    /\ \A k \in 1..received_packets : ComparedPayload(k) = published[k]

C5_Witness ==
    /\ received_packets = 3
    /\ Len(packet_queue) = 2
    /\ main_pc = "wait"
    /\ rx_pc = "scan"
    /\ consumed[3] = DevicePayload(3)
    /\ packet_queue[2] = DevicePayload(5)

\* C6: the result list always holds 11 records per payload received, never
\* more than packets_to_send payloads are received, the loop is left only
\* with exactly packets_to_send received, and with packets_to_send = 5 the
\* report generator gets exactly 55 records, payloads left in the queue
\* staying uncompared.
C6_SessionCompletion ==
    /\ Len(results_all) = PayloadLen * received_packets
    /\ received_packets <= packets_to_send
    /\ main_pc = "send" => received_packets = 0
    /\ main_pc \in {"wait", "timeout"} => received_packets < packets_to_send
    /\ main_pc \in {"stop", "close", "report", "done"} =>
          /\ received_packets = packets_to_send
          /\ Len(results_all) = 55
    /\ main_pc = "done" =>
          /\ report = results_all
          /\ Len(report) = 55
    /\ main_pc # "done" => report = <<>>

C6_Witness ==
    /\ main_pc = "done"
    /\ Len(report) = 55
    /\ received_packets = 5
    /\ Len(published) = 6
    /\ packet_queue = <<DevicePayload(6)>>

\* C7: the record at position 11*(k-1)+i carries id i, the i-th expected
\* value and the i-th byte of the k-th payload taken from the queue, and
\* every step leaves the records already in the list as they are.
C7_RecordOrder ==
    /\ [](\A k \in 1..Len(consumed) : \A i \in 1..PayloadLen :
            LET rec == results_all[(11 * (k - 1)) + i]
            IN  /\ rec.id = i
                /\ rec.expected = expected_data[i]
                /\ rec.received = consumed[k][i])
    /\ [][IsPrefix(results_all, results_all')]_vars

C7_Witness ==
    /\ Len(consumed) = 2
    /\ results_all[22].id = 11
    /\ results_all[22].expected = 110
    /\ results_all[22].received = 111
    /\ results_all[12].id = 1
    /\ results_all[12].received = 10

\* C8: for every expected value 1..255 and received value 0..255 the status
\* is PASS exactly when 100 * |received - expected| <= expected, and FAIL
\* otherwise; so 111 against 110 passes, 115 against 110 fails, and a value
\* equal to the expected one passes.
C8_Verdict ==
    unit.stage = "record" =>
        /\ unit.rec.status \in {"PASS", "FAIL"}
        /\ (unit.rec.status = "PASS")
              <=> (100 * Abs(unit.received - unit.expected) <= unit.expected)
        /\ (unit.expected = 110 /\ unit.received = 111) => unit.rec.status = "PASS"
        /\ (unit.expected = 110 /\ unit.received = 115) => unit.rec.status = "FAIL"
        /\ (unit.expected = unit.received) => unit.rec.status = "PASS"

C8_Witness ==
    /\ unit.stage = "record"
    /\ unit.expected = 100
    /\ unit.received = 101
    /\ unit.rec.status = "PASS"

\* C9: the step on which the wait expires leaves the received count, the
\* records, the queue and the stop signal as they were, the session's next
\* step is to wait again, no stop signal is set while the session waits, and
\* the session is at report generation only if at least packets_to_send
\* payloads were published.
C9_TimeoutNonFatal ==
    /\ [][(main_pc = "wait" /\ main_pc' = "timeout") =>
              /\ packet_queue = <<>>
              /\ UNCHANGED <<received_packets, results_all, consumed,
                             packet_queue, stop_event, ser_open, report>>]_vars
    /\ [][(main_pc = "timeout" /\ main_pc' # "timeout") =>
              /\ main_pc' = "wait"
              /\ UNCHANGED <<received_packets, results_all, consumed,
                             packet_queue, stop_event, ser_open, report>>]_vars
    /\ [](main_pc \in {"wait", "timeout"} => ~stop_event)
    /\ [](main_pc \in {"stop", "close", "report", "done"}
             => Len(published) >= packets_to_send)

C9_Witness ==
    /\ main_pc = "timeout"
    /\ received_packets = 4
    /\ Len(published) = 4
    /\ rx_pos = Len(stream)
    /\ PassComplete
    /\ ~stop_event

\* C10: a receiver that ended on a transport error has issued its last read,
\* and what the session can look at (the thread has ended, the stop signal)
\* differs from what a normal cancellation leaves, which is an ended thread
\* with the stop signal set.
C10_FailureSurfaced ==
    rx_exit = "error" =>
        /\ rx_pc = "exited"
        /\ ~stop_event

\* C11: once the receiver has ended on a transport failure with fewer than
\* packets_to_send payloads consumed, the session eventually leaves its wait
\* loop and hands the records it has to the report generator.
C11_EarlyHalt ==
    (rx_exit = "error" /\ received_packets < packets_to_send)
        ~> (main_pc = "done" /\ report = results_all)

\* C12: create_packet returns a frame only for a payload of exactly 11
\* bytes, and every frame it returns is 16 bytes long.
C12_InvalidLength ==
    unit.stage = "frame" =>
        /\ Len(unit.data) = PayloadLen
        /\ Len(unit.frame) = PacketLen

\* x with the constant 0xA001 = 40961 XORed in after a right shift, when the
\* bit shifted out is 1
RefShift(x) == IF x % 2 = 1 THEN BitXor(x \div 2, 40961) ELSE x \div 2

\* eight shifts
RefShift8(x) ==
    RefShift(RefShift(RefShift(RefShift(RefShift(RefShift(RefShift(RefShift(x))))))))

RECURSIVE RefCrc(_, _)
\* CRC-16/Modbus of the first n bytes of data
RefCrc(data, n) ==
    IF n = 0 THEN 65535
    ELSE Only({RefShift8(BitXor(before, data[n])) : before \in {RefCrc(data, n - 1)}})

\* C13: the accumulator of crc16 is within 0..0xFFFF at every statement, and
\* the value returned is the CRC-16/Modbus of the data: 0xFFFF for no data,
\* 0x4B37 for "123456789", and in general the value got by starting at
\* 0xFFFF and, per byte, XORing it in and shifting right eight times with
\* 0xA001 XORed in whenever a 1 is shifted out; crc16 as the other
\* definitions use it returns the same value.
C13_Checksum ==
    unit.stage \in {"crc_byte", "crc_bit", "crc_done"} =>
        /\ unit.crc \in 0..65535
        /\ unit.stage = "crc_byte" => unit.crc = RefCrc(unit.data, unit.i - 1)
        /\ unit.stage = "crc_done" =>
              /\ unit.crc = RefCrc(unit.data, Len(unit.data))
              /\ unit.crc = crc16(unit.data)
              /\ unit.data = <<>> => unit.crc = 65535
              /\ unit.data = <<49, 50, 51, 52, 53, 54, 55, 56, 57>> => unit.crc = 19255

C13_Witness ==
    /\ unit.stage = "crc_done"
    /\ unit.data = <<49, 50, 51, 52, 53, 54, 55, 56, 57>>
    /\ unit.crc = 19255

\* C14: a frame built by create_packet with any one of its 128 bits inverted
\* fails the receiver's tests on the 16 bytes, at the header test when the
\* bit is in bytes 0..2 and at the checksum test when it is in bytes 3..15,
\* and no payload comes out of it.
C14_BitFlipRejected ==
    (unit.stage \in {"valid", "bad_header", "bad_crc"} /\ unit.flipped # -1) =>
        /\ unit.flipped \in 0..127
        /\ unit.flipped < 24 => unit.stage = "bad_header"
        /\ unit.flipped >= 24 => unit.stage = "bad_crc"
        /\ unit.out = <<>>

C14_Witness ==
    /\ unit.stage = "bad_crc"
    /\ unit.flipped = 127
    /\ unit.data = expected_data
    /\ unit.frame = <<36, 70, 83, 10, 20, 30, 40, 50, 60, 70, 80, 90, 100, 110, 90, 238>>

\* C15: a step taken with the scan under way and 16 bytes or more buffered
\* either finds the front 16 bytes valid, publishes exactly their payload and
\* removes exactly those 16 bytes, or finds them invalid, removes exactly the
\* first byte and publishes nothing; what stays in the buffer is the rest of
\* the old buffer, unchanged.
C15_StepPolicy ==
    [][(rx_pc = "scan" /\ Len(buffer) >= PacketLen) =>
          IF FrontValid
          THEN /\ published' = Append(published, SubSeq(buffer, 4, 14))
               /\ packet_queue' = Append(packet_queue, SubSeq(buffer, 4, 14))
               /\ buffer' = SubSeq(buffer, 17, Len(buffer))
               /\ dropped' = dropped
          ELSE /\ published' = published
               /\ packet_queue' = packet_queue
               /\ buffer' = SubSeq(buffer, 2, Len(buffer))
               /\ dropped' = dropped + 1]_vars

C15_Witness ==
    /\ layout = <<"junk", "good", "bad">>
    /\ rx_pc = "scan"
    /\ dropped = 2
    /\ published = <<DevicePayload(1)>>
    /\ buffer = SubSeq(stream, 19, 33)

\* C16: whenever the receiver is at its loop test, about to read or inside a
\* read, fewer than 16 bytes are buffered; every iteration of the scan that
\* stays in the scan shortens the buffer; the scan is left only with fewer
\* than 16 bytes buffered, which stay as they are up to the next read; a read
\* that brings data appends it behind them, and a read that brings nothing
\* leaves the buffer as it was and publishes nothing.
C16_PassTerminates ==
    /\ [](rx_pc \in {"test", "call", "read"} => Len(buffer) < PacketLen)
    /\ [][(rx_pc = "scan" /\ rx_pc' = "scan") => Len(buffer') < Len(buffer)]_vars
    /\ [][(rx_pc = "scan" /\ rx_pc' # "scan") =>
              /\ Len(buffer) < PacketLen
              /\ rx_pc' = "test"
              /\ buffer' = buffer
              /\ published' = published]_vars
    /\ [][(rx_pc \in {"test", "call"}) =>
              /\ buffer' = buffer
              /\ published' = published]_vars
    /\ [][(rx_pc = "read") =>
              /\ published' = published
              /\ packet_queue' = packet_queue
              /\ IF rx_pc' = "scan"
                 THEN /\ Len(buffer') > Len(buffer)
                      /\ IsPrefix(buffer, buffer')
                 ELSE buffer' = buffer]_vars

C16_Witness ==
    /\ layout = <<"good", "good">>
    /\ rx_pc = "read"
    /\ nreads = 2
    /\ published = <<DevicePayload(1)>>
    /\ buffer = SubSeq(stream, 17, 31)

\* the number of stream bytes the receiver has finished with: the buffer is
\* the stream from the next position up to the last byte read
BufferStart == rx_pos - Len(buffer)

\* C17: the bytes read are the bytes dropped, plus 16 for each payload
\* published, plus the bytes buffered; the buffer is the unbroken stretch of
\* the stream that ends at the last byte read; its start never moves back; a
\* published payload is bytes 3..13 of the 16 stream bytes at that start, and
\* publishing moves the start past those 16 bytes.
C17_Conservation ==
    /\ [](/\ rx_pos = dropped + (16 * Len(published)) + Len(buffer)
          /\ buffer = SubSeq(stream, BufferStart + 1, rx_pos))
    /\ [][BufferStart' >= BufferStart]_vars
    /\ [][dropped' # dropped =>
              /\ dropped' = dropped + 1
              /\ BufferStart' = BufferStart + 1
              /\ published' = published]_vars
    /\ [][published' # published =>
              /\ published' = Append(published,
                                     SubSeq(stream, BufferStart + 4, BufferStart + 14))
              /\ BufferStart' = BufferStart + 16
              /\ dropped' = dropped]_vars

C17_Witness ==
    /\ layout = <<"junk", "good", "bad", "junk">>
    /\ rx_pos = 34
    /\ dropped = 3
    /\ published = <<DevicePayload(1)>>
    /\ Len(buffer) = 15
    /\ rx_pc = "test"

\* C18 as stated: once stop_event is set, no step of the receiver starts a
\* transport read.
C18_NoNewReads ==
    [][stop_event => ~(rx_pc # "read" /\ rx_pc' = "read")]_vars

\* C18 as amended: once stop_event is set it stays set and the receiver
\* passes its loop test no more; it calls ser.read at most once with the
\* signal set, and only when it had passed the loop test before.
C18_StopBounded ==
    /\ [][stop_event => stop_event']_vars
    /\ [][stop_event => ~(rx_pc = "test" /\ rx_pc' = "call")]_vars
    /\ [][(stop_event /\ rx_pc # "read" /\ rx_pc' = "read") =>
              /\ rx_pc = "call"
              /\ late_reads = 0
              /\ late_reads' = 1]_vars
    /\ [](late_reads <= 1)

C18_Witness ==
    /\ stop_event
    /\ late_reads = 1
    /\ rx_pc = "exited"
    /\ rx_exit = "stop"
    /\ nreads = ReadsCap

\* C19: the stop signal is set only with packets_to_send payloads consumed,
\* the port is closed only once the receiver's loop has ended, and the
\* receiver is never about to read, or reading, from a closed port.
C19_ShutdownOrder ==
    /\ stop_event => received_packets = packets_to_send
    /\ ~ser_open => rx_pc = "exited"
    /\ rx_pc \in {"call", "read"} => ser_open

\* C20: with the receiver thread scheduled and every read returning, a set
\* stop signal leads to the receiver's loop having ended; and whenever the
\* scan has a valid frame at the front of the buffer the publishing step can
\* be taken, however many payloads wait in the queue.
C20_ShutdownLiveness ==
    /\ stop_event ~> (rx_pc = "exited")
    /\ []((rx_pc = "scan" /\ Len(buffer) >= PacketLen /\ FrontValid)
             => ENABLED RxScanValid)

C20_Witness ==
    /\ stop_event
    /\ rx_pc = "exited"
    /\ rx_exit = "stop"
    /\ late_reads = 0
    /\ published = <<DevicePayload(1), DevicePayload(2), DevicePayload(3),
                     DevicePayload(4), DevicePayload(6)>>
    /\ main_pc = "done"

=============================================================================
